---- MODULE Spec2Model ----
(***************************************************************************)
(* A model of ppi_net_builder: the identifier resolver (fetch.py), the     *)
(* DataManager (data.py) and the NetworkBuilder (graph.py).                 *)
(*                                                                         *)
(* Python None is the empty tuple <<>>; an optional value x is <<x>>.       *)
(* Stable identifiers are non-empty tuples of character codes, compared    *)
(* as Python compares str (lexicographically by code point).               *)
(***************************************************************************)
EXTENDS Integers, Sequences, FiniteSets, TLC

VARIABLES
    pc,                \* position of the caller
    in_df,             \* df argument: None or <<column>>
    in_genes,          \* genes argument: None or <<list>>
    in_species,        \* species argument
    file_name,         \* annot_file_name argument: None or <<path>>
    batch_size,        \* batch_size of fetch_string_ids
    fs,                \* the cache file: None (no file) or <<rows>>
    file_ops,          \* the reads and writes of the cache file, in order
    dm_df,             \* DataManager.df
    dm_genes,          \* DataManager.genes
    dm_species,        \* DataManager.species: None until handle_species returns
    gene_map,          \* DataManager._gene_map: None or <<function>>
    work,              \* fetch_string_ids: the local genes
    bi,                \* fetch_string_ids: the loop variable i
    dfs,               \* fetch_string_ids: the local dfs
    prev_res,          \* fetch_string_ids: the local prev_res
    annot_df,          \* the table fetch_string_ids returned: None or <<rows>>
    interaction_table, \* NetworkBuilder.interaction_table
    network,           \* NetworkBuilder.network: None or <<graph>>
    network_vert_dic,  \* NetworkBuilder.network_vert_dic: None or <<dict>>
    subnetworks,       \* NetworkBuilder.subnetworks
    sent,              \* remote requests issued by the running/last operation
    written,           \* image files written by the last operation
    printed,           \* diagnostics the last operation printed to standard output
    received,          \* responses the last operation of a builder or of fetch.py got
    err,               \* the exception the last operation raised (NoErr if none)
    lastOp,            \* the last operation called, with its arguments
    obj,               \* the attributes of an instance with a guarded method
    body_calls,        \* how often the body of the guarded method has run
    out                \* the value the last operation returned

vars == <<pc, in_df, in_genes, in_species, file_name, batch_size, fs, file_ops, dm_df,
          dm_genes, dm_species, gene_map, work, bi, dfs, prev_res, annot_df,
          interaction_table, network, network_vert_dic, subnetworks,
          sent, written, printed, received, err, lastOp, out, obj, body_calls>>

\* the fields of a NetworkBuilder
nbVars == <<interaction_table, network, network_vert_dic, subnetworks, written,
            printed, received>>
\* an instance without attributes
NoInstance == <<>>

\* the arguments of the DataManager constructor and the cache file
inVars == <<in_df, in_genes, in_species, file_name, batch_size>>
\* an instance of a class with a method decorated by require_attribute
guardVars == <<obj, body_calls>>
\* the locals of fetch_string_ids
fsVars == <<work, bi, dfs, prev_res>>

None == <<>>
Some(x) == <<x>>
Val(o) == o[1]

NoErr == [type |-> "", msg |-> ""]
Raise(t, m) == [type |-> t, msg |-> m]

Min(a, b) == IF a < b THEN a ELSE b
Range(s) == {s[i] : i \in 1..Len(s)}

\* all orders list(set(..)) can produce for the set S
Perms(S) ==
    {p \in [1..Cardinality(S) -> S] : \A i, j \in 1..Cardinality(S) : p[i] = p[j] => i = j}

(***************************************************************************)
(* Bounds of the model.                                                    *)
(***************************************************************************)
MaxGenes == 2       \* longest gene list / df column
MaxBatch == 2       \* largest batch_size (the source's default is 100)

Genes == {"TP53", "BRCA1"}
GeneSeqs == UNION {[1..n -> Genes] : n \in 0..MaxGenes}

\* the stable identifier the remote resolver knows for a symbol
StringIdOf(g) == IF g = "TP53" THEN <<65>> ELSE <<66>>

(***************************************************************************)
(* data.py: Species, common_species, DataManager.handle_species            *)
(***************************************************************************)
Species == <<[name |-> "human", value |-> 9606],
             [name |-> "mouse", value |-> 10090],
             [name |-> "rat", value |-> 10116]>>

common_species == [i \in 1..Len(Species) |-> Species[i].name]

IsMember(nm) == \E i \in 1..Len(Species) : Species[i].name = nm
MemberValue(nm) == (CHOOSE i \in 1..Len(Species) : Species[i].name = nm)

\* a species argument: an int, a Species member or a str
SpInt(n) == [kind |-> "int", name |-> "", n |-> n]
SpEnum(nm) == [kind |-> "enum", name |-> nm, n |-> 0]
SpStr(s) == [kind |-> "str", name |-> s, n |-> 0]

Returned(v) == [raised |-> NoErr, value |-> v]
Raised(e) == [raised |-> e, value |-> 0]

\* a handle_species that falls back to the first member for an unknown name
handle_species_default(species) ==
    IF species.kind = "int" THEN Returned(species.n)
    ELSE IF IsMember(species.name)
        THEN Returned(Species[MemberValue(species.name)].value)
    ELSE Returned(Species[1].value)

handle_species(species) ==
    IF species.kind = "int" THEN Returned(species.n)
    ELSE IF species.kind = "enum"
        THEN Returned(Species[MemberValue(species.name)].value)
    ELSE IF IsMember(species.name)
        THEN Returned(Species[MemberValue(species.name)].value)
    ELSE Raised(Raise("AttributeError", species.name))

SpeciesNames == {"human", "mouse", "rat", "yeast", "fruit_fly", "zebrafish",
                 "chicken", "arabidopsis", "e_coli", "invalid_species"}
SpeciesArgs ==
    {SpEnum(Species[i].name) : i \in 1..Len(Species)}
        \cup {SpInt(Species[i].value) : i \in 1..Len(Species)}
        \cup {SpStr(s) : s \in SpeciesNames}

(***************************************************************************)
(* fetch.py: fetch_string_ids                                              *)
(***************************************************************************)
RowFields == 7            \* fields of one get_string_ids row
DefaultSpeciesId == 9606  \* species_id default of fetch_string_ids

\* one line of a response body after line.split("\t")
FullRow(g) == [n |-> RowFields, gene_name |-> g, STRING_ID |-> StringIdOf(g)]
Blank == [n |-> 1, gene_name |-> "", STRING_ID |-> None]

\* results.text.split("\n") for a body holding `rows`, with or without a
\* trailing newline; the empty body splits into one empty line
BodyLines(rows, nl) ==
    IF rows = <<>> THEN (IF nl THEN <<Blank, Blank>> ELSE <<Blank>>)
    ELSE (IF nl THEN Append(rows, Blank) ELSE rows)

MaxWidth(lines) ==
    IF \E i \in 1..Len(lines) : lines[i].n = RowFields THEN RowFields ELSE 1

\* pd.DataFrame(lines).dropna(): as many columns as the longest line, the
\* shorter lines padded with None and then dropped
BatchFrame(lines) ==
    LET w == MaxWidth(lines)
    IN  [ncols |-> w, rows |-> SelectSeq(lines, LAMBDA l : l.n = w)]

RECURSIVE ConcatRows(_, _)
ConcatRows(frames, w) ==
    IF frames = <<>> THEN <<>>
    ELSE (IF Head(frames).ncols = w THEN Head(frames).rows ELSE <<>>)
             \o ConcatRows(Tail(frames), w)

\* pd.concat(dfs, axis=0).dropna(how='any'): the union of the columns, rows
\* of the narrower frames hold NaN and are dropped
ConcatFrames(frames) ==
    LET w == IF \E i \in 1..Len(frames) : frames[i].ncols = RowFields
             THEN RowFields ELSE 1
    IN  [ncols |-> w, rows |-> ConcatRows(frames, w)]

\* genes[i * batch_size : (i + 1) * batch_size]
Slice(genes, i, b) == SubSeq(genes, i * b + 1, Min((i + 1) * b, Len(genes)))

\* range((len(genes) // batch_size) + 1)
NumBatches(genes, b) == (Len(genes) \div b) + 1

GeneNames(rows) == {rows[i].gene_name : i \in 1..Len(rows)}

\* a cache lookup that subtracts nothing from the requested genes
UncachedAll(genes, rows) == Range(genes)

\* set(genes) - set(prev_res["gene_name"])
Uncached(genes, rows) == Range(genes) \ GeneNames(rows)

(***************************************************************************)
(* data.py: DataManager.translate_genes, DataManager.string_ids            *)
(***************************************************************************)
\* a translate_genes that omits the {g: None for g in genes} initialisation
GeneMapOfRowsOnly(genes, rows) ==
    [g \in GeneNames(rows) |->
        rows[CHOOSE i \in 1..Len(rows) : rows[i].gene_name = g].STRING_ID]

\* g_map = {g: None for g in genes}; g_map.update(dict(zip(gene_name, STRING_ID)))
GeneMapOf(genes, rows) ==
    [g \in Range(genes) \cup GeneNames(rows) |->
        IF g \in GeneNames(rows)
        THEN rows[CHOOSE i \in 1..Len(rows) :
                     /\ rows[i].gene_name = g
                     /\ \A j \in (i + 1)..Len(rows) : rows[j].gene_name # g].STRING_ID
        ELSE None]

\* a string_ids that forgets the `is not None` test
RECURSIVE ResolvedWithNone(_, _)
ResolvedWithNone(src, gmap) ==
    IF src = <<>> THEN <<>>
    ELSE (IF Head(src) \in DOMAIN gmap THEN <<gmap[Head(src)]>> ELSE <<>>)
             \o ResolvedWithNone(Tail(src), gmap)

RECURSIVE Resolved(_, _)
Resolved(src, gmap) ==
    IF src = <<>> THEN <<>>
    ELSE (IF Head(src) \in DOMAIN gmap /\ gmap[Head(src)] # None
          THEN <<gmap[Head(src)]>> ELSE <<>>) \o Resolved(Tail(src), gmap)

\* the genes list, or the name column of df
InputGenes(df, genes) == IF df = None THEN Val(genes) ELSE Val(df)

string_ids(df, genes, gmap) == Resolved(InputGenes(df, genes), gmap)

(***************************************************************************)
(* The caller constructs a DataManager.                                    *)
(***************************************************************************)
Call(op, arg) == [op |-> op, arg |-> arg]

\* rows a cache file written by an earlier run can hold
CacheTables ==
    {<<>>, <<FullRow("TP53")>>, <<FullRow("BRCA1")>>,
     <<FullRow("TP53"), FullRow("BRCA1")>>}

InitDM ==
    /\ obj = NoInstance /\ body_calls = 0
    /\ pc = "new"
    /\ in_df \in {None} \cup {Some(s) : s \in GeneSeqs}
    /\ in_genes \in {None} \cup {Some(s) : s \in GeneSeqs}
    /\ in_species \in SpeciesArgs
    /\ file_name \in {None, Some("annot.csv")}
    /\ batch_size \in 1..MaxBatch
    /\ fs \in IF file_name = None THEN {None}
              ELSE {None} \cup {Some(t) : t \in CacheTables}
    /\ file_ops = <<>>
    /\ dm_df = None /\ dm_genes = None /\ dm_species = None /\ gene_map = None
    /\ work = <<>> /\ bi = 0 /\ dfs = <<>> /\ prev_res = None /\ annot_df = None
    /\ interaction_table = None /\ network = None /\ network_vert_dic = None
    /\ subnetworks = <<>> /\ written = <<>> /\ printed = <<>> /\ received = <<>>
    /\ sent = <<>> /\ err = NoErr /\ lastOp = Call("", <<>>) /\ out = None

\* the plausible slip `or` for `and` in the guard of DataManager.__init__
BothGivenOr(df, genes) == df # None \/ genes # None

\* if self.df is not None and self.genes is not None
BothGiven(df, genes) == df # None /\ genes # None

\* DataManager.__init__ up to the call of fetch_string_ids in translate_genes
DMInit ==
    /\ pc = "new"
    /\ lastOp' = Call("DataManager", <<>>)
    /\ dm_df' = in_df /\ dm_genes' = in_genes
    /\ LET both == BothGiven(in_df, in_genes)
           sp == handle_species(in_species)
       IN  \/ /\ both
              /\ err' = Raise("ValueError", "Can only use either df or genes, got both of them.")
              /\ pc' = "raised"
              /\ UNCHANGED <<dm_species, work>>
           \/ /\ ~both /\ sp.raised # NoErr
              /\ err' = sp.raised
              /\ pc' = "raised"
              /\ UNCHANGED <<dm_species, work>>
           \/ /\ ~both /\ sp.raised = NoErr
              /\ dm_species' = Some(sp.value)
              /\ \/ /\ in_df = None /\ in_genes = None
                    \* df[name_col] with df None
                    /\ err' = Raise("TypeError", "'NoneType' object is not subscriptable")
                    /\ pc' = "raised"
                    /\ UNCHANGED work
                 \/ /\ in_genes # None
                    /\ work' = Val(in_genes)
                    /\ pc' = "fetch_string_ids"
                    /\ UNCHANGED err
                 \/ /\ in_df # None
                    \* genes = list(set(df[name_col].to_list()))
                    /\ \E w \in Perms(Range(Val(in_df))) : work' = w
                    /\ pc' = "fetch_string_ids"
                    /\ UNCHANGED err
    /\ UNCHANGED <<inVars, guardVars, nbVars, fs, file_ops, gene_map, bi, dfs, prev_res, annot_df,
                   sent, out>>

\* one access of the cache file: a read or a write, the number of remote
\* calls issued before it, and the rows read or written
FileOp(op, calls, rows) == [op |-> op, calls |-> calls, rows |-> rows]

\* a write of the newly resolved rows alone
CacheWritesNewOnly(path, old, new, calls) ==
    IF path # None THEN <<FileOp("write", calls, new)>> ELSE <<>>

\* if file_name is not None: stringdb_ids.to_csv(file_name), the merged table
CacheWrites(path, old, new, calls) ==
    IF path # None THEN <<FileOp("write", calls, old \o new)>> ELSE <<>>

\* translate_genes after fetch_string_ids returned `rows`
TranslateDone(rows) ==
    /\ annot_df' = Some(rows)
    /\ gene_map' = Some(GeneMapOf(InputGenes(dm_df, dm_genes), rows))
    /\ pc' = "constructed"

\* fetch_string_ids: the cache file is read and the cached genes leave the work list
FSReadCache ==
    /\ pc = "fetch_string_ids"
    /\ \/ /\ file_name # None /\ fs # None
          /\ prev_res' = fs
          /\ file_ops' = Append(file_ops, FileOp("read", Len(sent), Val(fs)))
          /\ \E w \in Perms(Uncached(work, Val(fs))) :
                /\ work' = w
                /\ IF w = <<>> THEN TranslateDone(Val(fs))
                   ELSE pc' = "batches" /\ UNCHANGED <<annot_df, gene_map>>
       \/ /\ ~(file_name # None /\ fs # None)
          /\ pc' = "batches"
          /\ UNCHANGED <<prev_res, work, annot_df, gene_map, file_ops>>
    /\ UNCHANGED <<inVars, guardVars, nbVars, fs, dm_df, dm_genes, dm_species, bi, dfs, sent,
                   err, lastOp, out>>

\* rows of a successful get_string_ids response: one per answered position
AnswerRows(ids, answered) ==
    LET pick == SelectSeq([i \in 1..Len(ids) |-> i], LAMBDA i : i \in answered)
    IN  [k \in 1..Len(pick) |-> FullRow(ids[pick[k]])]

\* the status codes of the remote source: success, and two failures
OkStatus == 200
FailStatus == {404, 500}

\* a request that was posted, with the status of its response;
\* requests: ok is status_code < 400
Request(method, output, identifiers, species, status_code) ==
    [method |-> method, output |-> output, identifiers |-> identifiers,
     species |-> species, ok |-> status_code < 400, status_code |-> status_code]

\* one iteration of the batch loop
FSBatch ==
    /\ pc = "batches"
    /\ bi < NumBatches(work, batch_size)
    /\ LET ids == Slice(work, bi, batch_size)
       IN  \E status_code \in {OkStatus} \cup FailStatus :
             /\ sent' = Append(sent, Request("get_string_ids", "tsv-no-header", ids,
                                              DefaultSpeciesId, status_code))
             /\ IF status_code < 400
                THEN \E answered \in SUBSET (1..Len(ids)), nl \in BOOLEAN :
                        dfs' = Append(dfs, BatchFrame(BodyLines(AnswerRows(ids, answered), nl)))
                ELSE dfs' = dfs
    /\ bi' = bi + 1
    /\ UNCHANGED <<pc, inVars, guardVars, nbVars, fs, file_ops, dm_df, dm_genes, dm_species,
                   gene_map, work, prev_res, annot_df, err, lastOp, out>>

\* after the loop: concatenate, merge with the cache, write the cache, return
FSFinish ==
    /\ pc = "batches"
    /\ bi = NumBatches(work, batch_size)
    /\ LET cat == ConcatFrames(dfs)
           old == IF prev_res # None THEN Val(prev_res) ELSE <<>>
       IN  \/ /\ dfs # <<>> /\ cat.ncols < 2
              \* .drop(columns=[1]) on a frame with the single column 0
              /\ err' = Raise("KeyError", "[1] not found in axis")
              /\ pc' = "raised"
              /\ UNCHANGED <<fs, file_ops, annot_df, gene_map>>
           \/ /\ ~(dfs # <<>> /\ cat.ncols < 2)
              /\ LET new == IF dfs # <<>> THEN cat.rows ELSE <<>>
                     merged == old \o new
                     writes == CacheWrites(file_name, old, new, Len(sent))
                 IN  /\ file_ops' = file_ops \o writes
                     /\ fs' = IF writes # <<>> THEN Some(writes[Len(writes)].rows) ELSE fs
                     /\ TranslateDone(merged)
              /\ UNCHANGED err
    /\ UNCHANGED <<inVars, guardVars, nbVars, fsVars, dm_df, dm_genes, dm_species, sent,
                   lastOp, out>>

\* the property DataManager.string_ids is read
StringIdsGet ==
    /\ pc = "constructed"
    /\ lastOp' = Call("string_ids", <<>>)
    /\ out' = string_ids(dm_df, dm_genes, Val(gene_map))
    /\ err' = NoErr
    /\ UNCHANGED <<pc, inVars, guardVars, nbVars, fsVars, fs, file_ops, dm_df, dm_genes,
                   dm_species, gene_map, annot_df, sent>>

\* the caller assigns dm._gene_map, as the tests of string_ids do
GeneMaps == UNION {[S -> {None} \cup {StringIdOf(g) : g \in Genes}] : S \in SUBSET Genes}

SetGeneMap ==
    /\ pc = "constructed"
    /\ lastOp.op # "_gene_map ="
    /\ \E m \in GeneMaps : gene_map' = Some(m)
    /\ lastOp' = Call("_gene_map =", <<>>)
    /\ out' = None
    /\ err' = NoErr
    /\ UNCHANGED <<pc, inVars, guardVars, nbVars, fsVars, fs, file_ops, dm_df, dm_genes,
                   dm_species, annot_df, sent>>

NextDM == DMInit \/ FSReadCache \/ FSBatch \/ FSFinish \/ StringIdsGet \/ SetGeneMap

SpecDM == InitDM /\ [][NextDM]_vars

(***************************************************************************)
(* fetch.py: fetch_stringdb, fetch_enrichment, fetch_enrichment_figure     *)
(***************************************************************************)
MaxRows == 2        \* most lines after the header in a response body
NetFields == 5      \* columns of the network table
EnrichFields == 6   \* columns of the enrichment table

Ids == {<<65>>, <<65, 66>>, <<66>>}

NetHdr == [name |-> "network", n |-> NetFields]
EnrichHdr == [name |-> "enrichment", n |-> EnrichFields]
ErrorHdr == [name |-> "error", n |-> 1]

\* the display name the remote source gives for a stable identifier, as
\* character codes: "G1", "G2", "G3"
PreferredName(id) ==
    IF id = <<65>> THEN <<71, 49>> ELSE IF id = <<65, 66>> THEN <<71, 50>> ELSE <<71, 51>>

\* one line of a response body after line.split("\t"), n fields long; a network
\* line holds stringId_A, stringId_B, preferredName_A, preferredName_B, score
NetRow(a, b) ==
    [n |-> NetFields, a |-> a, b |-> b,
     name_a |-> PreferredName(a), name_b |-> PreferredName(b)]
EnrichRow == [n |-> EnrichFields, a |-> <<71, 79>>, b |-> None]
ShortLine == [n |-> 1, a |-> None, b |-> None]
LongNetLine == [n |-> NetFields + 1, a |-> None, b |-> None]
LongEnrichLine == [n |-> EnrichFields + 1, a |-> None, b |-> None]

\* the interactions the remote source knows, as (stringId_A, stringId_B)
Interactions == {<<<<65>>, <<65, 66>>>>, <<<<65, 66>>, <<66>>>>, <<<<66>>, <<65>>>>}

NetLines == {NetRow(e[1], e[2]) : e \in Interactions} \cup {ShortLine, LongNetLine}
EnrichLines == {EnrichRow, ShortLine, LongEnrichLine}

BodiesOf(lines) == UNION {[1..n -> lines] : n \in 0..MaxRows}

\* a response: its status, its header line, the lines after it, its bytes;
\* requests: ok is status_code < 400
Response(status_code, hdr, lines, content) ==
    [ok |-> status_code < 400, status_code |-> status_code, hdr |-> hdr,
     lines |-> lines, content |-> content]

NetResponses ==
    {Response(OkStatus, NetHdr, b, "tsv") : b \in BodiesOf(NetLines)}
        \cup {Response(c, ErrorHdr, <<>>, "error") : c \in FailStatus}
EnrichResponses ==
    {Response(OkStatus, EnrichHdr, b, "tsv") : b \in BodiesOf(EnrichLines)}
        \cup {Response(c, ErrorHdr, b, "error") : c \in FailStatus, b \in BodiesOf({ShortLine})}
ImageResponses ==
    {Response(OkStatus, ErrorHdr, <<>>, "png")}
        \cup {Response(c, ErrorHdr, <<>>, "error") : c \in FailStatus}

\* print(f"Request is not successful. Status Code: {response.status_code}")
Diagnostic(resp) ==
    "Request is not successful. Status Code: " \o ToString(resp.status_code)

\* a diagnostic that leaves the status code out
fetch_stringdb_prints_nocode(resp) ==
    IF ~resp.ok THEN <<"Request is not successful.", "request_url params">> ELSE <<>>

\* what fetch_stringdb prints: the diagnostic, then the url and the params
fetch_stringdb_prints(resp) ==
    IF ~resp.ok THEN <<Diagnostic(resp), "request_url params">> ELSE <<>>

\* what fetch_enrichment prints: it never looks at response.ok
fetch_enrichment_prints(resp) == <<>>

\* what fetch_enrichment_figure prints
fetch_enrichment_figure_prints(resp) ==
    IF ~resp.ok THEN <<Diagnostic(resp)>> ELSE <<>>

Table(cols, rows) == [cols |-> cols, rows |-> rows]

\* data = lines[1:]; columns = lines[0]; the len(data[0]) test; DataFrame(...).dropna()
ParseTsv(resp) ==
    IF resp.lines = <<>>
        THEN Raised(Raise("IndexError", "list index out of range"))
    ELSE IF resp.lines[1].n # resp.hdr.n
        THEN Returned(Table(resp.hdr.name, <<>>))
    ELSE IF \E i \in 1..Len(resp.lines) : resp.lines[i].n > resp.hdr.n
        THEN Raised(Raise("ValueError", "columns passed, passed data had more columns"))
    ELSE Returned(Table(resp.hdr.name,
                        SelectSeq(resp.lines, LAMBDA l : l.n = resp.hdr.n)))

\* fetch_stringdb with output="tsv"
fetch_stringdb(resp) ==
    IF ~resp.ok THEN Returned(Table("none", <<>>)) ELSE ParseTsv(resp)

\* fetch_stringdb with output="image": the files it writes
fetch_stringdb_image(img_file_name, resp) ==
    IF ~resp.ok THEN <<>> ELSE <<[path |-> img_file_name, content |-> resp.content]>>

fetch_enrichment(resp) == ParseTsv(resp)

\* fetch_enrichment_figure: the files it writes
fetch_enrichment_figure(img_file_name, resp) ==
    <<[path |-> img_file_name, content |-> resp.content]>>

(***************************************************************************)
(* graph.py: require_attribute, NetworkBuilder                             *)
(***************************************************************************)
ConstructFirstMsg == "Please call .construct_network first to get the main network"

\* a require_attribute whose test for the network attribute has a typo
require_attribute_typo(present, value, attr_name) ==
    IF ~present
        THEN Raise("AttributeError", "The object is missing the required attribute '"
                                         \o attr_name \o "'.")
    ELSE IF value = None
        THEN Raise("ValueError", IF attr_name = "networks" THEN ConstructFirstMsg
                                 ELSE "The attribute '" \o attr_name \o "' must not be None.")
    ELSE NoErr

\* the check the decorator makes before it calls the method
require_attribute(present, value, attr_name) ==
    IF ~present
        THEN Raise("AttributeError", "The object is missing the required attribute '"
                                         \o attr_name \o "'.")
    ELSE IF value = None
        THEN Raise("ValueError", IF attr_name = "network" THEN ConstructFirstMsg
                                 ELSE "The attribute '" \o attr_name \o "' must not be None.")
    ELSE NoErr

\* Python's < on str
RECURSIVE StrLess(_, _)
StrLess(x, y) ==
    IF y = <<>> THEN FALSE
    ELSE IF x = <<>> THEN TRUE
    ELSE IF x[1] # y[1] THEN x[1] < y[1]
    ELSE StrLess(Tail(x), Tail(y))

\* a sort in descending order, sorted(..., reverse=True)
RECURSIVE SortedDescending(_)
SortedDescending(S) ==
    IF S = {} THEN <<>>
    ELSE LET m == CHOOSE x \in S : \A y \in S \ {x} : StrLess(y, x)
         IN  <<m>> \o SortedDescending(S \ {m})

\* sorted(list(S)) for a set S of str
RECURSIVE Sorted(_)
Sorted(S) ==
    IF S = {} THEN <<>>
    ELSE LET m == CHOOSE x \in S : \A y \in S \ {x} : StrLess(x, y)
         IN  <<m>> \o Sorted(S \ {m})

\* vertex_dic = {g: i for i, g in enumerate(all_gene_names)}
\* a numbering of the identifiers that starts at 1
IndexOfOneBased(names, g) == CHOOSE i \in 1..Len(names) : names[i] = g

\* vertex_dic = {g: i for i, g in enumerate(all_gene_names)}
IndexOf(names, g) == (CHOOSE i \in 1..Len(names) : names[i] = g) - 1

\* igraph: Graph(edges=edges) has max index + 1 vertices
Graph(edges) ==
    [vcount |-> IF edges = <<>> THEN 0
                ELSE 1 + CHOOSE m \in 0..Cardinality(Ids) :
                           /\ \E i \in 1..Len(edges) : m \in {edges[i][1], edges[i][2]}
                           /\ \A i \in 1..Len(edges) : edges[i][1] <= m /\ edges[i][2] <= m,
     edges |-> edges,
     gene_name |-> <<>>]

all_gene_names(rows) ==
    Sorted({rows[i].a : i \in 1..Len(rows)} \cup {rows[i].b : i \in 1..Len(rows)})

\* a vertex attribute that holds the display name of each vertex
vs_gene_name_preferred(dic) ==
    [i \in 1..Cardinality(DOMAIN dic) |-> PreferredName(dic[i - 1])]

\* self.network.vs["gene_name"] = list(self.network_vert_dic.values())
vs_gene_name(dic) == [i \in 1..Cardinality(DOMAIN dic) |-> dic[i - 1]]

\* construct_network: the graph and the index -> identifier dict it stores
construct_network(table) ==
    IF table.cols # "network" THEN Raised(Raise("KeyError", "stringId_A"))
    ELSE LET names == all_gene_names(table.rows)
             edges == [i \in 1..Len(table.rows) |->
                          <<IndexOf(names, table.rows[i].a), IndexOf(names, table.rows[i].b)>>]
             dic == [i \in 0..(Len(names) - 1) |-> names[i + 1]]
         IN  Returned([network |-> [Graph(edges) EXCEPT !.gene_name = vs_gene_name(dic)],
                       network_vert_dic |-> dic])


\* igraph: the memberships a community detection can return for n vertices,
\* vertex v (0-based) in cluster m[v], the clusters numbered densely from 0
Memberships(n) ==
    {m \in [0..(n - 1) -> 0..(n - 1)] :
        \A c \in 0..(n - 1) :
            (\E v \in 0..(n - 1) : m[v] = c) => \A d \in 0..c : \E v \in 0..(n - 1) : m[v] = d}

NumClusters(m) == Cardinality({m[v] : v \in DOMAIN m})

\* the members of a set of vertex indices in ascending order
RECURSIVE Ascending(_)
Ascending(S) ==
    IF S = {} THEN <<>>
    ELSE LET lo == CHOOSE x \in S : \A y \in S : x <= y
         IN  <<lo>> \o Ascending(S \ {lo})

\* igraph: Graph.subgraph(vertices), the vertices renumbered in ascending order
Subgraph(g, S) ==
    LET vs == Ascending(S)
        pos(v) == (CHOOSE k \in 1..Len(vs) : vs[k] = v) - 1
        kept == SelectSeq(g.edges, LAMBDA e : e[1] \in S /\ e[2] \in S)
    IN  [vcount |-> Len(vs),
         edges |-> [i \in 1..Len(kept) |-> <<pos(kept[i][1]), pos(kept[i][2])>>],
         gene_name |-> [k \in 1..Len(vs) |-> g.gene_name[vs[k] + 1]]]

\* igraph: VertexClustering.subgraphs(), one subgraph per cluster, in cluster order
Subgraphs(g, m) ==
    [c \in 1..NumClusters(m) |-> Subgraph(g, {v \in DOMAIN m : m[v] = c - 1})]

\* sorted(graphs, key=lambda x: x.vcount()): a stable insertion sort
RECURSIVE InsertByVcount(_, _)
InsertByVcount(sorted, g) ==
    IF sorted = <<>> THEN <<g>>
    ELSE IF sorted[Len(sorted)].vcount <= g.vcount THEN Append(sorted, g)
    ELSE Append(InsertByVcount(SubSeq(sorted, 1, Len(sorted) - 1), g), sorted[Len(sorted)])

RECURSIVE SortedByVcount(_)
SortedByVcount(graphs) ==
    IF graphs = <<>> THEN <<>>
    ELSE InsertByVcount(SortedByVcount(SubSeq(graphs, 1, Len(graphs) - 1)),
                        graphs[Len(graphs)])

Reversed(seq) == [i \in 1..Len(seq) |-> seq[Len(seq) + 1 - i]]

\* {i: net for i, net in enumerate(subnetworks)}
Enumerate(seq) == [i \in 0..(Len(seq) - 1) |-> seq[i + 1]]

\* an extract_subnets without reversed(): the smallest community first
extract_subnets_ascending(g, m) == Enumerate(SortedByVcount(Subgraphs(g, m)))

\* the dict extract_subnets stores for the clustering with membership m
extract_subnets(g, m) == Enumerate(Reversed(SortedByVcount(Subgraphs(g, m))))

\* igraph: the community_<method> methods and what they return
Methods == {"fastgreedy", "multilevel", "walktrap"}
ReturnsDendrogram(method) == method \in {"fastgreedy", "walktrap"}

\* igraph: community_fastgreedy refuses a graph with multiple edges
HasMultiEdges(g) ==
    \E i, j \in 1..Len(g.edges) :
        i # j /\ {g.edges[i][1], g.edges[i][2]} = {g.edges[j][1], g.edges[j][2]}

\* subnetwork_id arguments: None or a key
SidArgs == {None, Some(0), Some(1)}
HasKey(sid) == sid # None /\ Val(sid) \in DOMAIN subnetworks

ImgPaths == {"net.png"}

(***************************************************************************)
(* The caller constructs a NetworkBuilder and uses it.                     *)
(***************************************************************************)
dmVars == <<fs, file_ops, dm_df, dm_genes, dm_species, gene_map, annot_df>>

\* the rows fetch_string_ids can have returned for the input genes
ResolvedTables(genes) ==
    {SelectSeq(<<FullRow("TP53"), FullRow("BRCA1")>>, LAMBDA r : r.gene_name \in S) :
        S \in SUBSET Range(genes)}

\* the gene lists and df columns the NetworkBuilder is constructed from
BuilderInputs == {<<>>, <<"TP53">>, <<"TP53", "BRCA1">>, <<"BRCA1", "BRCA1">>}

\* NetworkBuilder.__init__ has constructed its DataManager (no cache file)
InitNB ==
    /\ obj = NoInstance /\ body_calls = 0
    /\ pc = "nb_new"
    /\ \E genes \in BuilderInputs :
          /\ \/ in_df = Some(genes) /\ in_genes = None
             \/ in_df = None /\ in_genes = Some(genes)
          /\ \E rows \in ResolvedTables(genes) :
                /\ annot_df = Some(rows)
                /\ gene_map = Some(GeneMapOf(genes, rows))
    /\ in_species \in {SpStr("human"), SpStr("mouse")}
    /\ dm_species = Some(handle_species(in_species).value)
    /\ dm_df = in_df /\ dm_genes = in_genes
    /\ file_name = None /\ fs = None /\ file_ops = <<>> /\ batch_size = MaxBatch
    /\ work = <<>> /\ bi = 0 /\ dfs = <<>> /\ prev_res = None
    /\ interaction_table = None /\ network = None /\ network_vert_dic = None
    /\ subnetworks = <<>> /\ written = <<>> /\ printed = <<>> /\ received = <<>>
    /\ sent = <<>> /\ err = NoErr /\ lastOp = Call("DataManager", <<>>) /\ out = None

\* a fetch that is handed the gene symbols in place of self.data.string_ids
StringIdsRaw == InputGenes(dm_df, dm_genes)

\* self.data.string_ids
StringIds == string_ids(dm_df, dm_genes, Val(gene_map))

\* the rest of NetworkBuilder.__init__: get_interaction_table and the three fields
NBInit ==
    /\ pc = "nb_new"
    /\ lastOp' = Call("NetworkBuilder", <<>>)
    /\ \E resp \in NetResponses :
          LET r == fetch_stringdb(resp)
          IN  /\ sent' = <<Request("network", "tsv", StringIds, Val(dm_species), resp.status_code)>>
              /\ printed' = fetch_stringdb_prints(resp)
              /\ received' = <<resp>>
              /\ err' = r.raised
              /\ IF r.raised # NoErr
                 THEN pc' = "raised" /\ UNCHANGED <<interaction_table, subnetworks>>
                 ELSE /\ pc' = "returned"
                      /\ interaction_table' = Some(r.value)
                      /\ subnetworks' = <<>>
    /\ network' = None /\ network_vert_dic' = None
    /\ UNCHANGED <<inVars, guardVars, fsVars, dmVars, written, out>>

\* a construct_network that also empties subnetworks
ConstructNetworkReset ==
    /\ pc = "ready"
    /\ lastOp' = Call("construct_network", <<>>)
    /\ LET r == construct_network(Val(interaction_table))
       IN  /\ err' = r.raised
           /\ IF r.raised # NoErr
              THEN UNCHANGED <<network, network_vert_dic>>
              ELSE /\ network' = Some(r.value.network)
                   /\ network_vert_dic' = Some(r.value.network_vert_dic)
    /\ subnetworks' = <<>>
    /\ sent' = <<>> /\ written' = <<>> /\ printed' = <<>> /\ received' = <<>> /\ out' = None
    /\ pc' = "returned"
    /\ UNCHANGED <<inVars, guardVars, fsVars, dmVars, interaction_table>>

\* NetworkBuilder.construct_network()
ConstructNetwork ==
    /\ pc = "ready"
    /\ lastOp' = Call("construct_network", <<>>)
    /\ LET r == construct_network(Val(interaction_table))
       IN  /\ err' = r.raised
           /\ IF r.raised # NoErr
              THEN UNCHANGED <<network, network_vert_dic>>
              ELSE /\ network' = Some(r.value.network)
                   /\ network_vert_dic' = Some(r.value.network_vert_dic)
    /\ sent' = <<>> /\ written' = <<>> /\ printed' = <<>> /\ received' = <<>> /\ out' = None
    /\ pc' = "returned"
    /\ UNCHANGED <<inVars, guardVars, fsVars, dmVars, interaction_table, subnetworks>>

ExtractSubnets ==
    /\ pc = "ready"
    /\ \E method \in Methods :
          LET guard == require_attribute(TRUE, network, "network")
          IN  \/ /\ guard # NoErr
                 /\ err' = guard
                 /\ lastOp' = Call("extract_subnets", <<method, None>>)
                 /\ UNCHANGED subnetworks
              \/ /\ guard = NoErr
                 /\ method = "fastgreedy" /\ HasMultiEdges(Val(network))
                 /\ err' = Raise("InternalError", "fast-greedy community finding works only on graphs without multiple edges")
                 /\ lastOp' = Call("extract_subnets", <<method, None>>)
                 /\ UNCHANGED subnetworks
              \/ /\ guard = NoErr
                 /\ ~(method = "fastgreedy" /\ HasMultiEdges(Val(network)))
                 /\ \E m \in Memberships(Val(network).vcount) :
                       \* vdg holds the membership m
                       /\ lastOp' = Call("extract_subnets", <<method, Some(m)>>)
                       /\ IF method # "fastgreedy" /\ ReturnsDendrogram(method)
                          THEN \* vdg is a VertexDendrogram and is not flattened
                               /\ err' = Raise("AttributeError", "'VertexDendrogram' object has no attribute 'subgraphs'")
                               /\ UNCHANGED subnetworks
                          ELSE /\ subnetworks' = extract_subnets(Val(network), m)
                               /\ err' = NoErr
    /\ sent' = <<>> /\ written' = <<>> /\ printed' = <<>> /\ received' = <<>> /\ out' = None
    /\ pc' = "returned"
    /\ UNCHANGED <<inVars, guardVars, fsVars, dmVars, interaction_table, network, network_vert_dic>>

\* a genes_to_use that takes the main network whatever the arguments say
genes_to_use_main(use_main_network, sid) == Val(network).gene_name

\* genes_to_use of get_enrichment_table and save_enrichment_plot
genes_to_use(use_main_network, sid) ==
    IF use_main_network THEN Val(network).gene_name ELSE subnetworks[Val(sid)].gene_name

SidKeyError(sid) == Raise("KeyError", IF sid = None THEN "None" ELSE ToString(Val(sid)))

GetEnrichmentTable ==
    /\ pc = "ready"
    /\ \E use_main_network \in BOOLEAN, sid \in SidArgs :
          /\ lastOp' = Call("get_enrichment_table", <<use_main_network, sid>>)
          /\ LET guard == require_attribute(TRUE, network, "network")
             IN  \/ /\ guard # NoErr
                    /\ err' = guard /\ sent' = <<>> /\ out' = None
                    /\ printed' = <<>>
                    /\ received' = <<>>
                 \/ /\ guard = NoErr /\ ~use_main_network /\ ~HasKey(sid)
                    /\ err' = SidKeyError(sid) /\ sent' = <<>> /\ out' = None
                    /\ printed' = <<>>
                    /\ received' = <<>>
                 \/ /\ guard = NoErr /\ (use_main_network \/ HasKey(sid))
                    /\ \E resp \in EnrichResponses :
                          LET r == fetch_enrichment(resp)
                          IN  /\ sent' = <<Request("enrichment", "tsv",
                                                   genes_to_use(use_main_network, sid),
                                                   Val(dm_species), resp.status_code)>>
                              /\ printed' = fetch_enrichment_prints(resp)
                              /\ received' = <<resp>>
                              /\ err' = r.raised
                              /\ out' = IF r.raised = NoErr THEN Some(r.value) ELSE None
    /\ written' = <<>>
    /\ pc' = "returned"
    /\ UNCHANGED <<inVars, guardVars, fsVars, dmVars, interaction_table, network,
                   network_vert_dic, subnetworks>>

SaveEnrichmentPlot ==
    /\ pc = "ready"
    /\ \E img_file_name \in ImgPaths, use_main_network \in BOOLEAN, sid \in SidArgs :
          /\ lastOp' = Call("save_enrichment_plot", <<use_main_network, sid>>)
          /\ LET guard == require_attribute(TRUE, network, "network")
             IN  \/ /\ guard # NoErr
                    /\ err' = guard /\ sent' = <<>> /\ written' = <<>>
                    /\ printed' = <<>>
                    /\ received' = <<>>
                 \/ /\ guard = NoErr /\ ~use_main_network /\ ~HasKey(sid)
                    /\ err' = SidKeyError(sid) /\ sent' = <<>> /\ written' = <<>>
                    /\ printed' = <<>>
                    /\ received' = <<>>
                 \/ /\ guard = NoErr /\ (use_main_network \/ HasKey(sid))
                    /\ \E resp \in ImageResponses :
                          /\ sent' = <<Request("enrichmentfigure", "image",
                                               genes_to_use(use_main_network, sid),
                                               Val(dm_species), resp.status_code)>>
                          /\ written' = fetch_enrichment_figure(img_file_name, resp)
                          /\ printed' = fetch_enrichment_figure_prints(resp)
                          /\ received' = <<resp>>
                          /\ err' = NoErr
    /\ out' = None
    /\ pc' = "returned"
    /\ UNCHANGED <<inVars, guardVars, fsVars, dmVars, interaction_table, network,
                   network_vert_dic, subnetworks>>

\* save_interaction_image: the first fetch when use_main_network, then always
\* the fetch for self.subnetworks[subnetwork_id]
SaveInteractionImage ==
    /\ pc = "ready"
    /\ \E img_file_name \in ImgPaths, use_main_network \in BOOLEAN, sid \in SidArgs :
          /\ lastOp' = Call("save_interaction_image", <<use_main_network, sid>>)
          /\ \E first \in IF use_main_network THEN ImageResponses ELSE {ImageResponses} :
                LET sent1 == IF use_main_network
                             THEN <<Request("network", "image", StringIds,
                                            Val(dm_species), first.status_code)>>
                             ELSE <<>>
                    written1 == IF use_main_network
                                THEN fetch_stringdb_image(img_file_name, first)
                                ELSE <<>>
                    printed1 == IF use_main_network
                                THEN fetch_stringdb_prints(first)
                                ELSE <<>>
                    received1 == IF use_main_network THEN <<first>> ELSE <<>>
                IN  \/ /\ ~HasKey(sid)
                       /\ err' = SidKeyError(sid)
                       /\ sent' = sent1 /\ written' = written1
                       /\ printed' = printed1
                       /\ received' = received1
                    \/ /\ HasKey(sid)
                       /\ \E second \in ImageResponses :
                             /\ sent' = Append(sent1,
                                               Request("network", "image",
                                                       subnetworks[Val(sid)].gene_name,
                                                       Val(dm_species), second.status_code))
                             /\ written' = written1 \o fetch_stringdb_image(img_file_name, second)
                             /\ printed' = printed1 \o fetch_stringdb_prints(second)
                             /\ received' = Append(received1, second)
                       /\ err' = NoErr
    /\ out' = None
    /\ pc' = "returned"
    /\ UNCHANGED <<inVars, guardVars, fsVars, dmVars, interaction_table, network,
                   network_vert_dic, subnetworks>>

GetInteractionTable ==
    /\ pc = "ready"
    /\ lastOp' = Call("get_interaction_table", <<>>)
    /\ \E resp \in NetResponses :
          LET r == fetch_stringdb(resp)
          IN  /\ sent' = <<Request("network", "tsv", StringIds, Val(dm_species), resp.status_code)>>
              /\ printed' = fetch_stringdb_prints(resp)
              /\ received' = <<resp>>
              /\ err' = r.raised
              /\ out' = IF r.raised = NoErr THEN Some(r.value) ELSE None
    /\ written' = <<>>
    /\ pc' = "returned"
    /\ UNCHANGED <<inVars, guardVars, fsVars, dmVars, interaction_table, network,
                   network_vert_dic, subnetworks>>

\* the caller has looked at the outcome of the call and goes on
CallerProceeds ==
    /\ pc = "returned"
    /\ pc' = "ready"
    /\ lastOp' = Call("", <<>>)
    /\ sent' = <<>> /\ written' = <<>> /\ printed' = <<>> /\ received' = <<>> /\ err' = NoErr /\ out' = None
    /\ UNCHANGED <<inVars, guardVars, fsVars, dmVars, interaction_table, network,
                   network_vert_dic, subnetworks>>

Init == InitNB

Next ==
    \/ NBInit
    \/ CallerProceeds
    \/ ConstructNetwork
    \/ ExtractSubnets
    \/ GetEnrichmentTable
    \/ SaveEnrichmentPlot
    \/ SaveInteractionImage
    \/ GetInteractionTable

Spec == Init /\ [][Next]_vars

(***************************************************************************)
(* The caller uses the functions of fetch.py directly.                     *)
(***************************************************************************)
\* an assert that lets every method through
ValidMethodAny(method) == TRUE

\* assert method in ["network", "ppi_enrichment", "interaction_partners"]
ValidMethod(method) == method \in {"network", "ppi_enrichment", "interaction_partners"}

\* the method, output, genes and species_id arguments the caller passes
MethodArgs == {"network", "ppi_enrichment", "interaction_partners", "enrichment"}
OutputArgs == {"tsv", "image"}
GeneArgs == {<<>>, <<<<65>>>>, <<<<65>>, <<66>>>>}
SpeciesIdArgs == {Species[i].value : i \in 1..Len(Species)}

InitFetch ==
    /\ obj = NoInstance /\ body_calls = 0
    /\ pc = "ready"
    /\ in_df = None /\ in_genes = None /\ in_species = SpStr("human")
    /\ file_name = None /\ fs = None /\ file_ops = <<>> /\ batch_size = MaxBatch
    /\ dm_df = None /\ dm_genes = None /\ dm_species = None /\ gene_map = None
    /\ work = <<>> /\ bi = 0 /\ dfs = <<>> /\ prev_res = None /\ annot_df = None
    /\ interaction_table = None /\ network = None /\ network_vert_dic = None
    /\ subnetworks = <<>> /\ written = <<>> /\ printed = <<>> /\ received = <<>>
    /\ sent = <<>> /\ err = NoErr /\ lastOp = Call("", <<>>) /\ out = None

\* fetch_stringdb(genes, method, output, img_file_name, species_id=species_id)
FetchStringdb ==
    /\ pc = "ready"
    /\ \E genes \in GeneArgs, method \in MethodArgs, output \in OutputArgs,
          img_file_name \in ImgPaths, species_id \in SpeciesIdArgs :
          /\ lastOp' = Call("fetch_stringdb", <<genes, method, output, species_id>>)
          /\ \/ /\ ~ValidMethod(method)
                /\ err' = Raise("AssertionError", "")
                /\ sent' = <<>> /\ written' = <<>> /\ printed' = <<>> /\ received' = <<>> /\ out' = None
             \/ /\ ValidMethod(method) /\ output = "tsv"
                /\ \E resp \in NetResponses :
                      LET r == fetch_stringdb(resp)
                      IN  /\ sent' = <<Request(method, output, genes, species_id,
                                               resp.status_code)>>
                          /\ printed' = fetch_stringdb_prints(resp)
                          /\ received' = <<resp>>
                          /\ err' = r.raised
                          /\ out' = IF r.raised = NoErr THEN Some(r.value) ELSE None
                /\ written' = <<>>
             \/ /\ ValidMethod(method) /\ output = "image"
                /\ \E resp \in ImageResponses :
                      /\ sent' = <<Request(method, output, genes, species_id,
                                           resp.status_code)>>
                      /\ printed' = fetch_stringdb_prints(resp)
                      /\ received' = <<resp>>
                      /\ written' = fetch_stringdb_image(img_file_name, resp)
                      \* return pd.DataFrame(columns=[]) if not ok, else a bare return
                      /\ out' = IF resp.ok THEN None ELSE Some(Table("none", <<>>))
                /\ err' = NoErr
    /\ pc' = "returned"
    /\ UNCHANGED <<inVars, guardVars, fsVars, dmVars, interaction_table, network,
                   network_vert_dic, subnetworks>>

\* fetch_enrichment(genes, species_id=species_id)
FetchEnrichment ==
    /\ pc = "ready"
    /\ \E genes \in GeneArgs, species_id \in SpeciesIdArgs, resp \in EnrichResponses :
          LET r == fetch_enrichment(resp)
          IN  /\ lastOp' = Call("fetch_enrichment", <<genes, species_id>>)
              /\ sent' = <<Request("enrichment", "tsv", genes, species_id,
                                   resp.status_code)>>
              /\ printed' = fetch_enrichment_prints(resp)
              /\ received' = <<resp>>
              /\ err' = r.raised
              /\ out' = IF r.raised = NoErr THEN Some(r.value) ELSE None
    /\ written' = <<>>
    /\ pc' = "returned"
    /\ UNCHANGED <<inVars, guardVars, fsVars, dmVars, interaction_table, network,
                   network_vert_dic, subnetworks>>

\* fetch_enrichment_figure(genes, img_file_name, species_id=species_id)
FetchEnrichmentFigure ==
    /\ pc = "ready"
    /\ \E genes \in GeneArgs, species_id \in SpeciesIdArgs, img_file_name \in ImgPaths,
          resp \in ImageResponses :
          /\ lastOp' = Call("fetch_enrichment_figure", <<genes, species_id>>)
          /\ sent' = <<Request("enrichmentfigure", "image", genes, species_id,
                               resp.status_code)>>
          /\ printed' = fetch_enrichment_figure_prints(resp)
          /\ received' = <<resp>>
          /\ written' = fetch_enrichment_figure(img_file_name, resp)
    /\ err' = NoErr /\ out' = None
    /\ pc' = "returned"
    /\ UNCHANGED <<inVars, guardVars, fsVars, dmVars, interaction_table, network,
                   network_vert_dic, subnetworks>>

NextFetch == FetchStringdb \/ FetchEnrichment \/ FetchEnrichmentFigure \/ CallerProceeds

SpecFetch == InitFetch /\ [][NextFetch]_vars

(***************************************************************************)
(* Two fetch_string_ids invocations run concurrently against one cache     *)
(* file.  pc, work, bi, dfs, prev_res, annot_df, sent and err hold one     *)
(* value per invocation; the file and its log are shared.  Each step is    *)
(* one blocking call: the read of the file, one remote call, the write.    *)
(***************************************************************************)
Procs == {1, 2}

\* the genes each invocation is asked to resolve: different gene sets
RaceGenes == {<<<<"TP53">>, <<"BRCA1">>>>, <<<<"TP53", "BRCA1">>, <<"BRCA1">>>>,
              <<<<"TP53">>, <<"BRCA1", "TP53">>>>}

InitRace ==
    /\ obj = NoInstance /\ body_calls = 0
    /\ pc = [p \in Procs |-> "fetch_string_ids"]
    /\ in_genes \in RaceGenes
    /\ work = in_genes
    /\ file_name = Some("annot.csv")
    /\ fs \in {None, Some(<<>>), Some(<<FullRow("TP53")>>)}
    /\ file_ops = <<>>
    /\ batch_size = MaxBatch
    /\ bi = [p \in Procs |-> 0]
    /\ dfs = [p \in Procs |-> <<>>]
    /\ prev_res = [p \in Procs |-> None]
    /\ annot_df = [p \in Procs |-> None]
    /\ sent = [p \in Procs |-> <<>>]
    /\ err = [p \in Procs |-> NoErr]
    /\ in_df = None /\ in_species = SpInt(DefaultSpeciesId)
    /\ dm_df = None /\ dm_genes = None /\ dm_species = None /\ gene_map = None
    /\ interaction_table = None /\ network = None /\ network_vert_dic = None
    /\ subnetworks = <<>> /\ written = <<>> /\ printed = <<>> /\ received = <<>>
    /\ lastOp = Call("fetch_string_ids", <<>>) /\ out = None

\* a merge that takes the rows the file holds at the time of the write
OldTableReread(prev, file) == IF file # None THEN Val(file) ELSE <<>>

\* if prev_res is not None: pd.concat([prev_res, stringdb_ids]); prev_res is
\* what the invocation read at its start
OldTable(prev, file) == IF prev # None THEN Val(prev) ELSE <<>>

raceFrame == <<inVars, guardVars, nbVars, dm_df, dm_genes, dm_species, gene_map, lastOp, out>>

\* invocation p reads the cache file and drops the cached genes
RaceRead(p) ==
    /\ pc[p] = "fetch_string_ids"
    /\ \/ /\ fs # None
          /\ prev_res' = [prev_res EXCEPT ![p] = fs]
          /\ file_ops' = Append(file_ops, <<p, FileOp("read", Len(sent[p]), Val(fs))>>)
          /\ \E w \in Perms(Uncached(work[p], Val(fs))) :
                /\ work' = [work EXCEPT ![p] = w]
                /\ IF w = <<>>
                   THEN /\ annot_df' = [annot_df EXCEPT ![p] = fs]
                        /\ pc' = [pc EXCEPT ![p] = "done"]
                   ELSE /\ pc' = [pc EXCEPT ![p] = "batches"]
                        /\ UNCHANGED annot_df
       \/ /\ fs = None
          /\ pc' = [pc EXCEPT ![p] = "batches"]
          /\ UNCHANGED <<prev_res, work, annot_df, file_ops>>
    /\ UNCHANGED <<raceFrame, fs, bi, dfs, sent, err>>

\* invocation p issues one batch call
RaceBatch(p) ==
    /\ pc[p] = "batches"
    /\ bi[p] < NumBatches(work[p], batch_size)
    /\ LET ids == Slice(work[p], bi[p], batch_size)
       IN  \E status_code \in {OkStatus} \cup FailStatus :
             /\ sent' = [sent EXCEPT ![p] =
                            Append(@, Request("get_string_ids", "tsv-no-header", ids,
                                              DefaultSpeciesId, status_code))]
             /\ IF status_code < 400
                THEN \E answered \in SUBSET (1..Len(ids)), nl \in BOOLEAN :
                        dfs' = [dfs EXCEPT ![p] =
                                  Append(@, BatchFrame(BodyLines(AnswerRows(ids, answered), nl)))]
                ELSE dfs' = dfs
    /\ bi' = [bi EXCEPT ![p] = @ + 1]
    /\ UNCHANGED <<raceFrame, pc, fs, file_ops, work, prev_res, annot_df, err>>

\* invocation p concatenates, merges with what it read, writes and returns
RaceFinish(p) ==
    /\ pc[p] = "batches"
    /\ bi[p] = NumBatches(work[p], batch_size)
    /\ LET cat == ConcatFrames(dfs[p])
           old == OldTable(prev_res[p], fs)
       IN  \/ /\ dfs[p] # <<>> /\ cat.ncols < 2
              /\ err' = [err EXCEPT ![p] = Raise("KeyError", "[1] not found in axis")]
              /\ pc' = [pc EXCEPT ![p] = "raised"]
              /\ UNCHANGED <<fs, file_ops, annot_df>>
           \/ /\ ~(dfs[p] # <<>> /\ cat.ncols < 2)
              /\ LET new == IF dfs[p] # <<>> THEN cat.rows ELSE <<>>
                     writes == CacheWrites(file_name, old, new, Len(sent[p]))
                 IN  /\ file_ops' = file_ops \o [k \in 1..Len(writes) |-> <<p, writes[k]>>]
                     /\ fs' = Some(writes[Len(writes)].rows)
                     /\ annot_df' = [annot_df EXCEPT ![p] = Some(old \o new)]
              /\ pc' = [pc EXCEPT ![p] = "done"]
              /\ UNCHANGED err
    /\ UNCHANGED <<raceFrame, work, bi, dfs, prev_res, sent>>

NextRace == \E p \in Procs : RaceRead(p) \/ RaceBatch(p) \/ RaceFinish(p)

SpecRace == InitRace /\ [][NextRace]_vars

(***************************************************************************)
(* A method decorated with require_attribute, called on instances of a     *)
(* small class, as in TestRequireAttribute.                                *)
(***************************************************************************)
MaxCalls == 2       \* most runs of the method body in one behaviour

\* the attribute names a decorator is given
AttrNames == {"network", "other_attr", "data"}

\* the values the decorated methods return
BodyResults == {"success", "done"}

\* instances: each attribute is absent, None or set
Instances == UNION {[D -> {None, Some("test_network")}] : D \in SUBSET AttrNames}

InitGuard ==
    /\ pc = "ready"
    /\ obj \in Instances /\ body_calls = 0
    /\ in_df = None /\ in_genes = None /\ in_species = SpStr("human")
    /\ file_name = None /\ fs = None /\ file_ops = <<>> /\ batch_size = MaxBatch
    /\ dm_df = None /\ dm_genes = None /\ dm_species = None /\ gene_map = None
    /\ work = <<>> /\ bi = 0 /\ dfs = <<>> /\ prev_res = None /\ annot_df = None
    /\ interaction_table = None /\ network = None /\ network_vert_dic = None
    /\ subnetworks = <<>>
    /\ sent = <<>> /\ written = <<>> /\ printed = <<>> /\ received = <<>>
    /\ err = NoErr /\ lastOp = Call("", <<>>) /\ out = None

\* a wrapper that tests hasattr alone
wrapper_hasattr_only(self, attr_name, result) ==
    IF attr_name \notin DOMAIN self
    THEN Raised(Raise("AttributeError", "The object is missing the required attribute '"
                                            \o attr_name \o "'."))
    ELSE Returned(Some(result))

\* wrapper(self): the check, then method(self), whose body returns `result`
wrapper(self, attr_name, result) ==
    LET present == attr_name \in DOMAIN self
        guard == require_attribute(present, IF present THEN self[attr_name] ELSE None,
                                   attr_name)
    IN  IF guard # NoErr THEN Raised(guard) ELSE Returned(Some(result))

\* obj.test_method() where test_method is decorated with require_attribute(attr)
TestMethod ==
    /\ pc = "ready"
    /\ body_calls < MaxCalls
    /\ \E attr \in AttrNames, result \in BodyResults :
          LET r == wrapper(obj, attr, result)
          IN  /\ lastOp' = Call("test_method", <<attr, result>>)
              /\ IF r.raised # NoErr
                 THEN /\ err' = r.raised /\ out' = None
                      /\ body_calls' = body_calls
                 ELSE /\ err' = NoErr /\ out' = r.value
                      /\ body_calls' = body_calls + 1
    /\ pc' = "returned"
    /\ sent' = <<>> /\ written' = <<>> /\ printed' = <<>> /\ received' = <<>>
    /\ UNCHANGED <<inVars, obj, fsVars, dmVars, interaction_table, network,
                   network_vert_dic, subnetworks>>

\* an attribute of the instance is assigned
SetAttribute ==
    /\ pc = "ready"
    /\ \E attr \in AttrNames, v \in {None, Some("test_network")} :
          /\ obj' = [a \in DOMAIN obj \cup {attr} |-> IF a = attr THEN v ELSE obj[a]]
          /\ lastOp' = Call("setattr", <<attr, v>>)
    /\ sent' = <<>> /\ written' = <<>> /\ printed' = <<>> /\ received' = <<>>
    /\ err' = NoErr /\ out' = None
    /\ UNCHANGED <<pc, inVars, body_calls, fsVars, dmVars, interaction_table, network,
                   network_vert_dic, subnetworks>>

NextGuard == TestMethod \/ SetAttribute \/ CallerProceeds

SpecGuard == InitGuard /\ [][NextGuard]_vars

(***************************************************************************)
(* Claims about the NetworkBuilder (Spec).                                 *)
(***************************************************************************)
GuardedOps == {"extract_subnets", "get_enrichment_table", "save_enrichment_plot"}

\* C1: while network is None, every call of extract_subnets,
\* get_enrichment_table or save_enrichment_plot raises the ValueError 'Please
\* call .construct_network first to get the main network', issues no remote
\* request, writes no file and leaves network, network_vert_dic and
\* subnetworks unchanged.
Thm_C1 ==
    [][(pc = "ready" /\ network = None /\ lastOp'.op \in GuardedOps) =>
          /\ err' = Raise("ValueError",
                          "Please call .construct_network first to get the main network")
          /\ sent' = <<>>
          /\ written' = <<>>
          /\ network' = network
          /\ network_vert_dic' = network_vert_dic
          /\ subnetworks' = subnetworks]_vars

Wit_C1 ==
    /\ pc = "returned"
    /\ lastOp.op = "save_enrichment_plot"
    /\ network = None
    /\ err.type = "ValueError"

\* the identifiers of the input genes that the gene map resolves, in input order
ResolvedInputIds ==
    LET gm == Val(gene_map)
        src == SelectSeq(InputGenes(dm_df, dm_genes),
                         LAMBDA g : g \in DOMAIN gm /\ gm[g] # None)
    IN  [k \in 1..Len(src) |-> gm[src[k]]]

\* C2: when NetworkBuilder construction returns, network and network_vert_dic
\* are None, subnetworks is empty, and exactly one interaction fetch with
\* method 'network' has been issued, for the DataManager's resolved
\* identifiers, its result stored as interaction_table.
Thm_C2 ==
    (pc = "returned" /\ lastOp.op = "NetworkBuilder") =>
        /\ network = None
        /\ network_vert_dic = None
        /\ DOMAIN subnetworks = {}
        /\ Len(sent) = 1
        /\ sent[1].method = "network" /\ sent[1].output = "tsv"
        /\ sent[1].identifiers = ResolvedInputIds
        /\ interaction_table # None
        /\ ~sent[1].ok => Val(interaction_table) = Table("none", <<>>)
        /\ sent[1].ok =>
              /\ Val(interaction_table).cols = "network"
              /\ \A i \in 1..Len(Val(interaction_table).rows) :
                    Val(interaction_table).rows[i].n = NetFields

Wit_C2 ==
    /\ pc = "returned" /\ lastOp.op = "NetworkBuilder"
    /\ Len(InputGenes(dm_df, dm_genes)) = 2
    /\ Len(sent[1].identifiers) = 1
    /\ Len(Val(interaction_table).rows) = 2

\* the identifiers in ascending str order: "A" < "AB" < "B"
IdsAscending == <<<<65>>, <<65, 66>>, <<66>>>>

\* C3: construct_network numbers the n distinct identifiers of stringId_A and
\* stringId_B as 0..n-1 in ascending order: network_vert_dic maps i to the
\* i-th smallest identifier, the graph has n vertices and one edge per row
\* joining the indices of the row's identifiers; the numbering depends only on
\* the set of identifiers.
Thm_C3 ==
    (pc = "returned" /\ lastOp.op = "construct_network" /\ err = NoErr) =>
        LET rows == Val(interaction_table).rows
            S == {rows[i].a : i \in 1..Len(rows)} \cup {rows[i].b : i \in 1..Len(rows)}
            expected == SelectSeq(IdsAscending, LAMBDA x : x \in S)
            dic == Val(network_vert_dic)
            g == Val(network)
        IN  /\ g.vcount = Cardinality(S)
            /\ DOMAIN dic = 0..(Cardinality(S) - 1)
            /\ \A i \in DOMAIN dic : dic[i] = expected[i + 1]
            /\ Len(g.edges) = Len(rows)
            /\ \A r \in 1..Len(rows) :
                  /\ g.edges[r][1] \in DOMAIN dic /\ dic[g.edges[r][1]] = rows[r].a
                  /\ g.edges[r][2] \in DOMAIN dic /\ dic[g.edges[r][2]] = rows[r].b

Wit_C3 ==
    /\ pc = "returned" /\ lastOp.op = "construct_network" /\ err = NoErr
    /\ Val(interaction_table).rows = <<NetRow(<<65, 66>>, <<66>>), NetRow(<<65>>, <<65, 66>>)>>
    /\ Val(network).vcount = 3
    /\ Val(network_vert_dic) = [i \in 0..2 |-> IdsAscending[i + 1]]
    /\ Val(network).edges = <<<<1, 2>>, <<0, 1>>>>

\* C4: after successful extract_subnets calls, subnetworks holds exactly the
\* communities of the most recent call: its keys are 0..k-1 for the k
\* communities of that call, and the community at key i has at least as many
\* vertices as the one at key i+1.
Thm_C4 ==
    /\ \A i \in DOMAIN subnetworks :
          /\ i \in 0..(Cardinality(DOMAIN subnetworks) - 1)
          /\ (i + 1) \in DOMAIN subnetworks =>
                subnetworks[i].vcount >= subnetworks[i + 1].vcount
    /\ (pc = "returned" /\ lastOp.op = "extract_subnets" /\ err = NoErr) =>
          LET m == Val(lastOp.arg[2])
              g == Val(network)
              clusters == {{v \in DOMAIN m : m[v] = c} : c \in {m[v] : v \in DOMAIN m}}
          IN  /\ Cardinality(DOMAIN subnetworks) = Cardinality(clusters)
              /\ \A cl \in clusters :
                    \E i \in DOMAIN subnetworks :
                        /\ subnetworks[i].vcount = Cardinality(cl)
                        /\ Range(subnetworks[i].gene_name) = {g.gene_name[v + 1] : v \in cl}

Wit_C4 ==
    /\ pc = "returned" /\ lastOp.op = "extract_subnets" /\ err = NoErr
    /\ Val(network).vcount = 3
    /\ Val(lastOp.arg[2]) = [v \in 0..2 |-> IF v = 0 THEN 0 ELSE 1]
    /\ subnetworks[0].vcount = 2 /\ subnetworks[1].vcount = 1

(***************************************************************************)
(* Claims about the DataManager and the identifier resolver (SpecDM).      *)
(***************************************************************************)
BothMsg == "Can only use either df or genes, got both of them."
AfterDMInit == lastOp.op = "DataManager"
GivenBoth == in_df # None /\ in_genes # None
GivenOne == (in_df = None) # (in_genes = None)

\* C5: constructing a DataManager with both df and genes raises the ValueError
\* 'Can only use either df or genes...' before any identifier lookup is issued;
\* with exactly one of them that error is never raised; a constructed
\* DataManager holds exactly one of df and genes; with neither, construction
\* raises and yields no DataManager.
Thm_C5 ==
    /\ (AfterDMInit /\ GivenBoth) =>
          /\ pc = "raised"
          /\ err = Raise("ValueError", BothMsg)
          /\ sent = <<>>
    /\ GivenOne => err # Raise("ValueError", BothMsg)
    /\ (pc = "constructed") => ((dm_df = None) # (dm_genes = None))
    /\ (AfterDMInit /\ in_df = None /\ in_genes = None) => pc = "raised"

Wit_C5 ==
    /\ pc = "raised" /\ GivenBoth
    /\ err.type = "ValueError"
    /\ Len(Val(in_df)) > 0 /\ Len(Val(in_genes)) > 0

\* C6: for every member of Species, handle_species returns the member's
\* taxonomy ID for the member, for its name and for its numeric ID; for a
\* string that names no member it raises and returns nothing.
Thm_C6 ==
    (AfterDMInit /\ ~GivenBoth) =>
        /\ \A i \in 1..Len(Species) :
              in_species \in {SpEnum(Species[i].name), SpStr(Species[i].name),
                              SpInt(Species[i].value)}
                  => dm_species = Some(Species[i].value)
        /\ (in_species.kind = "str"
               /\ \A i \in 1..Len(Species) : Species[i].name # in_species.name)
              => /\ pc = "raised"
                 /\ err.type = "AttributeError"
                 /\ dm_species = None

Wit_C6 ==
    /\ AfterDMInit
    /\ in_species \in {SpStr("human"), SpStr("mouse")}
    /\ dm_species = Some(10090)
    /\ pc = "fetch_string_ids"

NineNames == <<"human", "mouse", "rat", "yeast", "fruit_fly", "zebrafish",
               "chicken", "arabidopsis", "e_coli">>
NineIds == <<9606, 10090, 10116, 559292, 7227, 7955, 9031, 3702, 562>>

\* C7: handle_species maps each of the nine names human, mouse, rat, yeast,
\* fruit_fly, zebrafish, chicken, arabidopsis and e_coli to its taxonomy ID,
\* and common_species lists exactly these nine names in that order.
Claim_C7 ==
    (AfterDMInit /\ ~GivenBoth /\ in_species.kind = "str") =>
        /\ \A k \in 1..Len(NineNames) :
              in_species.name = NineNames[k] => dm_species = Some(NineIds[k])
        /\ common_species = NineNames

\* C8: string_ids returns the identifiers of exactly the positions of the
\* input gene sequence whose gene maps to a non-null identifier, in input
\* order; genes absent from the map or mapped to null contribute nothing.
Thm_C8 ==
    (lastOp.op = "string_ids") =>
        LET src == InputGenes(dm_df, dm_genes)
            gm == Val(gene_map)
            kept == {i \in 1..Len(src) : src[i] \in DOMAIN gm /\ gm[src[i]] # None}
            nth(k) == CHOOSE i \in kept : Cardinality({j \in kept : j < i}) = k - 1
        IN  /\ Len(out) = Cardinality(kept)
            /\ \A k \in 1..Len(out) : out[k] = gm[src[nth(k)]]

Wit_C8 ==
    /\ lastOp.op = "string_ids"
    /\ dm_df # None
    /\ Val(dm_df) = <<"TP53", "BRCA1">>
    /\ "TP53" \in DOMAIN Val(gene_map) /\ Val(gene_map)["TP53"] = None
    /\ out = <<StringIdOf("BRCA1")>>

\* C9: after DataManager construction every input gene symbol is a key of the
\* gene map: a symbol with a returned row maps to that row's identifier, a
\* symbol without one (unknown gene or failed batch) maps to null.
Thm_C9 ==
    (pc = "constructed" /\ AfterDMInit) =>
        LET gm == Val(gene_map)
            rows == Val(annot_df)
        IN  \A g \in Range(InputGenes(in_df, in_genes)) :
              /\ g \in DOMAIN gm
              /\ \A i \in 1..Len(rows) : rows[i].gene_name = g => gm[g] = rows[i].STRING_ID
              /\ (\A i \in 1..Len(rows) : rows[i].gene_name # g) => gm[g] = None

Wit_C9 ==
    /\ pc = "constructed" /\ AfterDMInit
    /\ \E k \in 1..Len(sent) : ~sent[k].ok /\ sent[k].identifiers # <<>>
    /\ \E g \in DOMAIN Val(gene_map) : Val(gene_map)[g] = None
    /\ \E g \in DOMAIN Val(gene_map) : Val(gene_map)[g] # None

\* C10: in fetch_string_ids a batch whose call fails contributes no rows and
\* raises no error, is not re-issued, does not keep the remaining batches from
\* being issued and returned, and its genes are absent from the returned table.
Claim_C10 ==
    /\ (pc = "batches") =>
          /\ err = NoErr
          /\ Len(dfs) = Cardinality({k \in 1..Len(sent) : sent[k].ok})
          /\ Len(sent) = bi
    /\ (pc \in {"batches", "constructed", "raised"}) =>
          \A k \in 1..Len(sent) : sent[k].identifiers = Slice(work, k - 1, batch_size)
    /\ (pc = "constructed" /\ prev_res = None) =>
          Len(sent) = NumBatches(work, batch_size)
    /\ (pc = "constructed") =>
          \A k \in 1..Len(sent) : ~sent[k].ok =>
              \A g \in Range(sent[k].identifiers) : g \notin GeneNames(Val(annot_df))

\* the part of C10 that the code keeps: what a failed batch leaves alone, and
\* that its genes are absent unless another, successful batch holds them too
Obs_C10 ==
    /\ (pc = "batches") =>
          /\ err = NoErr
          /\ Len(dfs) = Cardinality({k \in 1..Len(sent) : sent[k].ok})
          /\ Len(sent) = bi
    /\ (pc \in {"batches", "constructed", "raised"}) =>
          \A k \in 1..Len(sent) : sent[k].identifiers = Slice(work, k - 1, batch_size)
    /\ (pc = "constructed" /\ (prev_res = None \/ work # <<>>)) =>
          Len(sent) = NumBatches(work, batch_size)
    /\ (pc = "constructed") =>
          \A k \in 1..Len(sent) : ~sent[k].ok =>
              \A g \in Range(sent[k].identifiers) :
                  g \in GeneNames(Val(annot_df)) =>
                      \E j \in 1..Len(sent) : sent[j].ok /\ g \in Range(sent[j].identifiers)

(***************************************************************************)
(* C11: when fetch_string_ids runs with a cache file that holds rows for    *)
(* some of the requested genes, the identifiers submitted in the remote     *)
(* calls are exactly the requested genes without a row in the cache (no     *)
(* call at all when every requested gene is cached), the returned table is  *)
(* the cached rows followed by the newly resolved rows, and the cache file  *)
(* afterwards holds the old rows and the newly resolved rows.  A call that  *)
(* raises has resolved no row and leaves the file as it was.                *)
(***************************************************************************)
Requested == Range(InputGenes(dm_df, dm_genes))
Submitted == UNION {Range(sent[k].identifiers) : k \in 1..Len(sent)}
NewRows == ConcatRows(dfs, RowFields)
CacheWasRead == prev_res # None /\ pc \in {"constructed", "raised"}

CalledStringdb == lastOp.op = "fetch_stringdb"
MethodOf(call) == call.arg[2]
OutputOf(call) == call.arg[3]

\* C12: fetch_stringdb called with a method other than 'network',
\* 'ppi_enrichment' or 'interaction_partners' fails with an error
\* (AssertionError) before any remote request is issued and before any file
\* is written.
Thm_C12 ==
    (CalledStringdb
        /\ MethodOf(lastOp) \notin {"network", "ppi_enrichment", "interaction_partners"})
    => /\ err.type = "AssertionError"
       /\ sent = <<>> /\ received = <<>> /\ written = <<>>
       /\ out = None

\* fetch_stringdb(genes, method="enrichment", output="image") has raised
Wit_C12 ==
    /\ CalledStringdb /\ pc = "returned"
    /\ MethodOf(lastOp) = "enrichment" /\ OutputOf(lastOp) = "image"
    /\ err.type = "AssertionError" /\ sent = <<>> /\ written = <<>>

FailedStringdb == CalledStringdb /\ received # <<>> /\ ~received[1].ok

\* C13: when the response to fetch_stringdb has a non-success status,
\* fetch_stringdb prints a diagnostic that contains the status code, returns
\* an empty table with no rows and no columns, does not raise and, also with
\* output 'image', writes nothing to the image file path.
Thm_C13 ==
    FailedStringdb =>
        /\ Len(sent) = 1 /\ Len(received) = 1
        /\ printed # <<>>
        /\ printed[1] = "Request is not successful. Status Code: "
                            \o ToString(received[1].status_code)
        /\ out = Some(Table("none", <<>>))
        /\ err = NoErr
        /\ written = <<>>

\* an image request answered with status 404: a diagnostic, no file
Wit_C13 ==
    /\ FailedStringdb /\ pc = "returned"
    /\ OutputOf(lastOp) = "image"
    /\ received[1].status_code = 404
    /\ printed[1] = "Request is not successful. Status Code: 404"
    /\ written = <<>> /\ out = Some(Table("none", <<>>))

FailedEnrichment ==
    lastOp.op = "fetch_enrichment" /\ received # <<>> /\ ~received[1].ok

\* C14: an enrichment-table fetch whose response has a non-success status
\* prints a diagnostic and yields an empty table; it neither raises nor
\* returns rows parsed from the error body.
Claim_C14 ==
    FailedEnrichment =>
        /\ printed # <<>>
        /\ err = NoErr
        /\ out # None
        /\ Val(out).rows = <<>>

\* what fetch_enrichment does with a failed response: it prints nothing and
\* treats the error body as a table, exactly as it treats a successful body
Obs_C14 ==
    FailedEnrichment =>
        /\ printed = <<>>
        /\ (received[1].lines = <<>>) => err.type = "IndexError"
        /\ (received[1].lines # <<>>) =>
              (err = NoErr /\ Val(out).cols = received[1].hdr.name /\ Val(out).rows # <<>>)

ParsedTsv ==
    /\ lastOp.op \in {"fetch_stringdb", "fetch_enrichment"}
    /\ received # <<>> /\ received[1].ok
    /\ sent[1].output = "tsv"

\* the body does not tabulate into the header's column count: no line after
\* the header, or a line whose field count is not the header's
NotTabular(resp) ==
    resp.lines = <<>> \/ \E i \in 1..Len(resp.lines) : resp.lines[i].n # resp.hdr.n

\* C15: for every successful tab-separated response whose body does not
\* tabulate into the header's column count (a header line only, or later rows
\* with a field count other than the header's), fetch_stringdb and
\* fetch_enrichment return an empty table with the header's columns and do
\* not raise.
Claim_C15 ==
    (ParsedTsv /\ NotTabular(received[1])) =>
        /\ err = NoErr
        /\ out = Some(Table(received[1].hdr.name, <<>>))

\* what the code does: only the first line after the header is compared with
\* the header; without such a line data[0] raises IndexError, a longer later
\* line raises ValueError, shorter later lines are dropped
Obs_C15 ==
    ParsedTsv =>
        LET resp == received[1]
        IN  /\ (resp.lines = <<>>) => err.type = "IndexError"
            /\ (resp.lines # <<>> /\ resp.lines[1].n # resp.hdr.n) =>
                  (err = NoErr /\ out = Some(Table(resp.hdr.name, <<>>)))
            /\ (resp.lines # <<>> /\ resp.lines[1].n = resp.hdr.n) =>
                  IF \E i \in 1..Len(resp.lines) : resp.lines[i].n > resp.hdr.n
                  THEN err.type = "ValueError"
                  ELSE /\ err = NoErr
                       /\ Val(out).rows = SelectSeq(resp.lines, LAMBDA l : l.n = resp.hdr.n)

(***************************************************************************)
(* Claims about the operations of a NetworkBuilder (Spec).                 *)
(***************************************************************************)
UseMain(call) == call.arg[1]
SidOf(call) == call.arg[2]
EnrichmentOps == {"get_enrichment_table", "save_enrichment_plot"}

\* C16: save_interaction_image resolves its gene list as save_enrichment_plot
\* does: with use_main_network=True and subnetwork_id None it issues exactly
\* one image request for the whole network, writes the image to the given
\* path and returns normally; with use_main_network=False and an existing
\* subnetwork_id it issues exactly one image request for the vertices of
\* that community.
Claim_C16 ==
    (lastOp.op = "save_interaction_image") =>
        /\ (UseMain(lastOp) /\ SidOf(lastOp) = None) =>
              /\ Len(sent) = 1 /\ sent[1].output = "image"
              /\ err = NoErr
              /\ sent[1].ok => Len(written) = 1
        /\ (~UseMain(lastOp) /\ HasKey(SidOf(lastOp))) =>
              /\ Len(sent) = 1 /\ sent[1].output = "image"
              /\ sent[1].identifiers = subnetworks[Val(SidOf(lastOp))].gene_name
              /\ err = NoErr

\* what the code does: the request for subnetworks[subnetwork_id] is made
\* whatever use_main_network is, so the default call raises KeyError after
\* its first request, and a call for the main network with an existing
\* subnetwork_id issues two requests
Obs_C16 ==
    (lastOp.op = "save_interaction_image") =>
        /\ Len(sent) = (IF UseMain(lastOp) THEN 1 ELSE 0)
                            + (IF HasKey(SidOf(lastOp)) THEN 1 ELSE 0)
        /\ err = (IF HasKey(SidOf(lastOp)) THEN NoErr ELSE SidKeyError(SidOf(lastOp)))

EnrichmentCall ==
    /\ lastOp.op \in EnrichmentOps
    /\ network # None
    /\ UseMain(lastOp) \/ HasKey(SidOf(lastOp))

BadSidCall ==
    /\ lastOp.op \in EnrichmentOps
    /\ network # None
    /\ ~UseMain(lastOp) /\ ~HasKey(SidOf(lastOp))

\* C18: on a constructed network, get_enrichment_table and
\* save_enrichment_plot called with use_main_network=False and a
\* subnetwork_id that is None or no key of subnetworks raise a ValueError and
\* issue no remote request.
Claim_C18 ==
    BadSidCall => (err.type = "ValueError" /\ sent = <<>>)

\* what the code does: the dict lookup raises KeyError, before any request
Obs_C18 ==
    BadSidCall => (err.type = "KeyError" /\ sent = <<>> /\ written = <<>> /\ out = None)

Constructed == network # None /\ network_vert_dic # None
TableRows == Val(interaction_table).rows

\* C19 as stated: after construct_network each vertex carries as gene_name
\* the display name (preferredName_A / preferredName_B) the interaction table
\* gives for the vertex's stable identifier, not the identifier itself.
Claim_C19 ==
    Constructed =>
        \A i \in 1..Val(network).vcount : \A k \in 1..Len(TableRows) :
            /\ (TableRows[k].a = Val(network_vert_dic)[i - 1]) =>
                  Val(network).gene_name[i] = TableRows[k].name_a
            /\ (TableRows[k].b = Val(network_vert_dic)[i - 1]) =>
                  Val(network).gene_name[i] = TableRows[k].name_b

\* C19 as the code and its test have it: after construct_network the
\* gene_name attribute of vertex i is the stable identifier
\* network_vert_dic[i], an identifier of the stringId_A / stringId_B columns.
Thm_C19 ==
    Constructed =>
        /\ Len(Val(network).gene_name) = Val(network).vcount
        /\ \A i \in 1..Val(network).vcount :
              /\ Val(network).gene_name[i] = Val(network_vert_dic)[i - 1]
              /\ \E k \in 1..Len(TableRows) :
                    Val(network).gene_name[i] \in {TableRows[k].a, TableRows[k].b}

\* construct_network on a table with three identifiers
Wit_C19 ==
    /\ Constructed /\ lastOp.op = "construct_network"
    /\ Val(network).gene_name = <<<<65>>, <<65, 66>>, <<66>>>>
    /\ \E k \in 1..Len(TableRows) :
          TableRows[k].a = <<65>> /\ TableRows[k].name_a = <<71, 49>>

\* extract_subnets ran on a constructed network and the library's community
\* detection returned its result
CommunitiesFound ==
    lastOp.op = "extract_subnets" /\ network # None /\ lastOp.arg[2] # None

\* C20: extract_subnets succeeds for every community-detection method,
\* whether the method returns a flat partition or a dendrogram: a dendrogram
\* (from 'fastgreedy', 'walktrap', ...) is flattened into a clustering before
\* the communities are extracted, a flat result is used as it is.
Claim_C20 ==
    CommunitiesFound =>
        /\ err = NoErr
        /\ subnetworks = extract_subnets(Val(network), Val(lastOp.arg[2]))

\* what the code does: only the result of 'fastgreedy' is flattened; the
\* dendrogram of any other method has no subgraphs() and the call raises
Obs_C20 ==
    CommunitiesFound =>
        IF lastOp.arg[1] # "fastgreedy" /\ ReturnsDendrogram(lastOp.arg[1])
        THEN err.type = "AttributeError"
        ELSE err = NoErr /\ subnetworks = extract_subnets(Val(network), Val(lastOp.arg[2]))

(***************************************************************************)
(* Claims about the batches of fetch_string_ids (SpecDM).                  *)
(***************************************************************************)
\* ceil(n / b)
CeilDiv(n, b) == (n + b - 1) \div b

RECURSIVE Flatten(_)
Flatten(seqs) == IF seqs = <<>> THEN <<>> ELSE Head(seqs) \o Flatten(Tail(seqs))

\* fetch_string_ids has left its batch loop, or never entered it
ResolverDone == pc \in {"constructed", "raised"}

\* C21: for a work list of n genes and batch size b, fetch_string_ids issues
\* exactly ceil(n / b) remote calls: the batches are the consecutive slices
\* of the work list, each non-empty and of at most b genes, every gene is
\* submitted in exactly one batch, and no call has an empty identifier list
\* (also when n is 0 or a multiple of b).
Claim_C21 ==
    ResolverDone =>
        /\ Len(sent) = CeilDiv(Len(work), batch_size)
        /\ \A k \in 1..Len(sent) :
              /\ sent[k].identifiers # <<>>
              /\ Len(sent[k].identifiers) <= batch_size
        /\ Flatten([k \in 1..Len(sent) |-> sent[k].identifiers]) = work

\* what the code does: range(len(genes) // batch_size + 1) is one batch more
\* than ceil(n / b) when b divides n, and that last slice is empty
Obs_C21 ==
    (ResolverDone /\ sent # <<>>) =>
        /\ Len(sent) = (Len(work) \div batch_size) + 1
        /\ \A k \in 1..Len(sent) : sent[k].identifiers = Slice(work, k - 1, batch_size)
        /\ Flatten([k \in 1..Len(sent) |-> sent[k].identifiers]) = work
        /\ (Len(work) % batch_size = 0) => sent[Len(sent)].identifiers = <<>>

\* C22: DataManager construction invokes the identifier resolver once, and
\* the work list handed to it holds each distinct input gene symbol exactly
\* once, for a df column and for an explicit genes list with repeated
\* symbols alike.
Claim_C22 ==
    (pc = "fetch_string_ids") =>
        /\ Range(work) = Range(InputGenes(dm_df, dm_genes))
        /\ \A i, j \in 1..Len(work) : work[i] = work[j] => i = j

\* what the code does: only the df column goes through list(set(...)); an
\* explicit genes list is handed over as it is
Obs_C22 ==
    (pc = "fetch_string_ids") =>
        /\ Range(work) = Range(InputGenes(dm_df, dm_genes))
        /\ (dm_df # None) => \A i, j \in 1..Len(work) : work[i] = work[j] => i = j
        /\ (dm_genes # None) => work = Val(dm_genes)

\* C26: the identifier lookups issued while a DataManager is constructed
\* carry the species ID to which the species selector was normalized; for
\* species='mouse' every get_string_ids request has species 10090.
Claim_C26 ==
    \A k \in 1..Len(sent) :
        (sent[k].method = "get_string_ids" /\ dm_species # None) =>
            sent[k].species = Val(dm_species)

\* what the code does: translate_genes passes no species_id, every lookup
\* carries the default of fetch_string_ids
Obs_C26 ==
    \A k \in 1..Len(sent) :
        sent[k].method = "get_string_ids" => sent[k].species = DefaultSpeciesId

\* every batch call succeeded and no body held a match row
AllBodiesEmpty ==
    /\ ResolverDone /\ lastOp.op = "DataManager"
    /\ sent # <<>>
    /\ \A k \in 1..Len(sent) : sent[k].ok
    /\ Len(dfs) = Len(sent)
    /\ ConcatRows(dfs, RowFields) = <<>>

\* C27: when every batch call of fetch_string_ids succeeds but returns a body
\* without match rows, fetch_string_ids completes without raising and returns
\* a table with no resolved rows, so that DataManager construction completes
\* with every input gene mapped to null.
Claim_C27 ==
    AllBodiesEmpty =>
        /\ pc = "constructed" /\ err = NoErr
        /\ annot_df = Some(IF prev_res = None THEN <<>> ELSE Val(prev_res))
        /\ (prev_res = None) =>
              \A g \in Range(InputGenes(dm_df, dm_genes)) : Val(gene_map)[g] = None

\* what the code does: the frames of empty bodies have the single column 0,
\* and .drop(columns=[1]) raises KeyError
Obs_C27 ==
    AllBodiesEmpty =>
        /\ pc = "raised" /\ err.type = "KeyError"
        /\ annot_df = None /\ gene_map = None
        /\ fs = (IF prev_res = None THEN None ELSE prev_res)

(***************************************************************************)
(* Claims about the cache file of fetch_string_ids (SpecDM).               *)
(***************************************************************************)
Reads == SelectSeq(file_ops, LAMBDA e : e.op = "read")
Writes == SelectSeq(file_ops, LAMBDA e : e.op = "write")
OldRows == IF prev_res = None THEN <<>> ELSE Val(prev_res)

\* the reads and writes are in place: at most one read, before any remote
\* call and before any write; at most one write, after the last batch call,
\* of the old rows followed by the newly resolved rows
InPlace ==
    /\ Len(Reads) <= 1 /\ Len(Writes) <= 1
    /\ (Reads # <<>>) => (file_ops[1].op = "read" /\ Reads[1].calls = 0)
    /\ (Writes # <<>>) =>
          /\ Writes[1].calls = Len(sent)
          /\ Len(sent) = NumBatches(work, batch_size)
          /\ Writes[1].rows = OldRows \o ConcatRows(dfs, RowFields)
          /\ fs = Some(Writes[1].rows)

\* C23 as stated: in every fetch_string_ids call that is given a cache file
\* path, the file is read at most once and only before the first remote
\* call, and it is written exactly once, after the last batch call has
\* returned, with the full merged table; it is never written between batches.
Claim_C23 ==
    (file_name # None) =>
        /\ InPlace
        /\ (pc = "batches") => Writes = <<>>
        /\ (pc = "constructed") => Len(Writes) = 1

\* C23 as the code has it: the file is read at most once, before the first
\* remote call, and written at most once, never between batches: exactly
\* once, after the last batch call and with the full merged table, when the
\* call runs its batch loop and returns; not at all when every requested
\* gene is cached (the cached table is returned at once) or when the call
\* raises.  Without a file path the file is never touched.
Thm_C23 ==
    /\ (file_name = None) => file_ops = <<>>
    /\ (file_name # None) =>
          /\ InPlace
          /\ (pc \in {"new", "fetch_string_ids", "batches", "raised"}) => Writes = <<>>
          /\ (pc = "constructed") =>
                Len(Writes) = (IF prev_res # None /\ work = <<>> THEN 0 ELSE 1)

\* a run with a cache: read before the first of two calls, written after both
Wit_C23 ==
    /\ pc = "constructed" /\ file_name # None
    /\ Len(file_ops) = 2 /\ Len(sent) = 2
    /\ file_ops[1] = FileOp("read", 0, <<FullRow("TP53")>>)
    /\ file_ops[2] = FileOp("write", 2, <<FullRow("TP53"), FullRow("BRCA1")>>)

\* a run whose genes are all cached: read, no remote call, no write
Wit_C23_cached ==
    /\ pc = "constructed" /\ file_name # None
    /\ Requested # {} /\ sent = <<>>
    /\ Len(Reads) = 1 /\ Writes = <<>>

(***************************************************************************)
(* Claims about concurrent invocations (SpecRace).                         *)
(***************************************************************************)
\* the file events of invocation p, in order
RaceOps(p, op) == SelectSeq(file_ops, LAMBDA e : e[1] = p /\ e[2].op = op)

\* the rows invocation p resolved in its own batch calls
RaceResolved(p) == ConcatRows(dfs[p], RowFields)

\* what invocation p read at its start (nothing when there was no file)
RaceSnapshot(p) == IF prev_res[p] = None THEN <<>> ELSE Val(prev_res[p])

\* position of the first event of invocation p with the given op, 0 if none
RacePos(p, op) ==
    IF \E k \in 1..Len(file_ops) : file_ops[k][1] = p /\ file_ops[k][2].op = op
    THEN CHOOSE k \in 1..Len(file_ops) :
            /\ file_ops[k][1] = p /\ file_ops[k][2].op = op
            /\ \A j \in 1..(k - 1) : ~(file_ops[j][1] = p /\ file_ops[j][2].op = op)
    ELSE 0

\* C24: each of two concurrent fetch_string_ids invocations on one cache
\* file reads the file at most once, before any of its remote calls, and
\* writes it at most once, after them; what it writes is the table it read
\* at its start followed by the rows it resolved itself, whatever the file
\* holds at the time of the write, and the file then holds exactly that.
\* Rows another invocation wrote in between are therefore overwritten.
Thm_C24 ==
    /\ \A p \in Procs :
          /\ Len(RaceOps(p, "read")) <= 1 /\ Len(RaceOps(p, "write")) <= 1
          /\ \A k \in 1..Len(RaceOps(p, "read")) :
                /\ RaceOps(p, "read")[k][2].calls = 0
                /\ RaceOps(p, "read")[k][2].rows = RaceSnapshot(p)
          /\ \A k \in 1..Len(RaceOps(p, "write")) :
                /\ RaceOps(p, "write")[k][2].calls = Len(sent[p])
                /\ RaceOps(p, "write")[k][2].rows = RaceSnapshot(p) \o RaceResolved(p)
                /\ RacePos(p, "read") < RacePos(p, "write")
          /\ (pc[p] = "done" /\ work[p] # <<>>) => Len(RaceOps(p, "write")) = 1
    /\ (file_ops # <<>> /\ file_ops[Len(file_ops)][2].op = "write") =>
          fs = Some(file_ops[Len(file_ops)][2].rows)

\* a lost update: both invocations returned, invocation 1 resolved BRCA1
\* against the empty file and wrote it, and the file left by invocation 2,
\* which had read the file before that write, lacks the row
Wit_C24 ==
    /\ pc = [p \in Procs |-> "done"]
    /\ Len(RaceOps(1, "write")) = 1 /\ Len(RaceOps(2, "write")) = 1
    /\ 0 < RacePos(2, "read") /\ RacePos(2, "read") < RacePos(1, "write")
    /\ RacePos(1, "write") < RacePos(2, "write")
    /\ \E r \in Range(RaceResolved(1)) :
          /\ r \in Range(RaceOps(1, "write")[1][2].rows)
          /\ r \notin Range(Val(fs))

(***************************************************************************)
(* Claims about the require_attribute decorator (SpecGuard).               *)
(***************************************************************************)
\* the attribute the decorator of the last call names, and the body's result
GuardAttr(op) == op.arg[1]
GuardResult(op) == op.arg[2]

\* C25: a call of a method guarded by require_attribute(attr) runs the body
\* once and returns the body's result exactly when the instance has attr and
\* attr is not None.  With attr present but None and attr other than
\* "network" it raises ValueError "The attribute '<attr>' must not be None.",
\* which is not the construct-network message; with attr absent it raises
\* AttributeError naming attr.  In both error cases the body does not run.
Thm_C25 ==
    [][(lastOp'.op = "test_method") =>
          LET attr == GuardAttr(lastOp')
              has == attr \in DOMAIN obj
          IN  /\ (has /\ obj[attr] # None) =>
                    /\ err' = NoErr /\ out' = Some(GuardResult(lastOp'))
                    /\ body_calls' = body_calls + 1
              /\ (has /\ obj[attr] = None /\ attr # "network") =>
                    /\ err' = Raise("ValueError",
                                    "The attribute '" \o attr \o "' must not be None.")
                    /\ err'.msg # ConstructFirstMsg
                    /\ out' = None /\ body_calls' = body_calls
              /\ (has /\ obj[attr] = None /\ attr = "network") =>
                    /\ err'.type = "ValueError"
                    /\ out' = None /\ body_calls' = body_calls
              /\ ~has =>
                    /\ err' = Raise("AttributeError",
                                    "The object is missing the required attribute '"
                                        \o attr \o "'.")
                    /\ out' = None /\ body_calls' = body_calls
              /\ obj' = obj]_vars

\* test_require_attribute_none_value_generic: other_attr is None, the call
\* raised the ValueError naming other_attr and the body has not run
Wit_C25 ==
    /\ lastOp = Call("test_method", <<"other_attr", "success">>)
    /\ "other_attr" \in DOMAIN obj /\ obj["other_attr"] = None
    /\ err = Raise("ValueError", "The attribute 'other_attr' must not be None.")
    /\ out = None /\ body_calls = 0

\* a call on an instance without the attribute raised AttributeError
Wit_C25_missing ==
    /\ lastOp = Call("test_method", <<"data", "done">>)
    /\ "data" \notin DOMAIN obj
    /\ err = Raise("AttributeError", "The object is missing the required attribute 'data'.")
    /\ body_calls = 0

\* a call on an instance whose attribute is set ran the body
Wit_C25_success ==
    /\ lastOp = Call("test_method", <<"other_attr", "success">>)
    /\ "other_attr" \in DOMAIN obj /\ obj["other_attr"] # None
    /\ err = NoErr /\ out = Some("success") /\ body_calls = 1

(***************************************************************************)
(* Invariants and frame conditions of the NetworkBuilder (Spec).           *)
(***************************************************************************)
\* network and network_vert_dic are unset together, or the dict's keys are
\* the vertex indices of the graph
NetInv ==
    \/ network = None /\ network_vert_dic = None
    \/ /\ network # None /\ network_vert_dic # None
       /\ DOMAIN Val(network_vert_dic) = 0..(Val(network).vcount - 1)

\* C28: in every reachable state of a NetworkBuilder, network and
\* network_vert_dic are both None, or both set with the keys of
\* network_vert_dic being exactly the vertex indices 0..vcount-1; and a
\* construct_network call that raises leaves network, network_vert_dic and
\* subnetworks as they were.
Thm_C28 ==
    /\ []NetInv
    /\ [][(lastOp'.op = "construct_network" /\ err' # NoErr) =>
             UNCHANGED <<network, network_vert_dic, subnetworks>>]_vars

\* construct_network has failed on the column-less table that a failed
\* interaction fetch left, and nothing is set
Wit_C28 ==
    /\ lastOp.op = "construct_network" /\ pc = "returned"
    /\ err = Raise("KeyError", "stringId_A")
    /\ received = <<>> /\ Val(interaction_table).cols # "network"
    /\ network = None /\ network_vert_dic = None /\ subnetworks = <<>>

\* construct_network has built a graph with three vertices
Wit_C28_set ==
    /\ lastOp.op = "construct_network" /\ err = NoErr
    /\ network # None /\ Val(network).vcount = 3
    /\ DOMAIN Val(network_vert_dic) = {0, 1, 2}

\* the builder exists: NetworkBuilder.__init__ has returned
Built == pc \in {"ready", "returned"}

\* C29: once a NetworkBuilder is constructed, no operation changes the gene
\* map or the stored interaction_table: get_interaction_table returns the
\* table it fetched and stores nothing.  construct_network changes nothing
\* but network and network_vert_dic, subnetworks included, and a second
\* construct_network gives the vertex numbering and edge list of the first.
Thm_C29 ==
    [][/\ Built => /\ gene_map' = gene_map
                   /\ interaction_table' = interaction_table
       /\ (lastOp'.op = "get_interaction_table" /\ err' = NoErr) =>
             /\ out' = Some(fetch_stringdb(received'[1]).value)
             /\ UNCHANGED <<network, network_vert_dic, subnetworks>>
       /\ (lastOp'.op = "construct_network") =>
             /\ UNCHANGED <<subnetworks, dmVars, inVars, fsVars, interaction_table>>
             /\ written' = <<>> /\ sent' = <<>>
       /\ (lastOp'.op = "construct_network" /\ network # None) =>
             /\ err' = NoErr
             /\ network' = network
             /\ network_vert_dic' = network_vert_dic]_vars

\* construct_network has run a second time, after extract_subnets stored
\* two communities, and the communities are still there
Wit_C29 ==
    /\ lastOp.op = "construct_network" /\ err = NoErr
    /\ network # None /\ Val(network).edges # <<>>
    /\ DOMAIN subnetworks = {0, 1}

\* get_interaction_table has returned a table other than the stored one
Wit_C29_fresh ==
    /\ lastOp.op = "get_interaction_table" /\ err = NoErr
    /\ out # None /\ out # interaction_table

(***************************************************************************)
(* Image outputs of fetch.py (SpecFetch).                                  *)
(***************************************************************************)
\* the last call was an image-producing one that got a response
ImageCall ==
    /\ received # <<>>
    /\ \/ lastOp.op = "fetch_stringdb" /\ lastOp.arg[3] = "image"
       \/ lastOp.op = "fetch_enrichment_figure"

\* the one file holding exactly the bytes of the response
ImageFile == <<[path |-> "net.png", content |-> received[1].content]>>

\* C30: no image-producing operation writes to the caller-given path when the
\* response has a non-success status, fetch_stringdb with output "image" and
\* fetch_enrichment_figure alike; on a successful response the file holds
\* exactly the response bytes and the operation returns nothing.
Claim_C30 ==
    ImageCall =>
        IF received[1].ok THEN written = ImageFile /\ out = None /\ err = NoErr
        ELSE written = <<>>

\* what the code does: fetch_stringdb writes on success only, while
\* fetch_enrichment_figure prints the diagnostic of a failed response and
\* writes the bytes of the response all the same
Obs_C30 ==
    ImageCall =>
        /\ err = NoErr
        /\ (lastOp.op = "fetch_stringdb") =>
              IF received[1].ok THEN written = ImageFile /\ out = None
              ELSE written = <<>> /\ out # None
        /\ (lastOp.op = "fetch_enrichment_figure") =>
              /\ written = ImageFile /\ out = None
              /\ printed = (IF received[1].ok THEN <<>> ELSE <<Diagnostic(received[1])>>)

====
